---- MODULE Spec2Model ----
(***************************************************************************)
(* Model of the pathbuf crate (src/src/lib.rs) on a Unix target: the       *)
(* pathbuf! and pathbuf_safe! macros, SinglePathComponent and              *)
(* PushPathComponent.  Paths are sequences of one-character strings; the   *)
(* std::path primitives the crate calls (Path::components, PathBuf::push)  *)
(* are modelled by their Unix behaviour.                                   *)
(***************************************************************************)
EXTENDS Naturals, Sequences, FiniteSets, TLC

(* ---------------------------------------------------------------------- *)
(* Bounds                                                                 *)
(* ---------------------------------------------------------------------- *)

\* longest text of a part handed to a join macro
MaxPartLen == 2

\* longest text handed to SinglePathComponent::new / with_sanitise, and
\* longest trusted first part of pathbuf_safe![allow ...]
MaxTextLen == 3

\* largest number of arguments of one macro invocation
MaxParts == 2

\* a name character, the dot and the Unix separator
Alphabet == {"a", ".", "/"}

Texts(n) == UNION {[1..k -> Alphabet] : k \in 0..n}

PartLists(n) == UNION {[1..k -> Texts(MaxPartLen)] : k \in 0..n}

(* ---------------------------------------------------------------------- *)
(* std::path on Unix, as used by the crate                                *)
(* ---------------------------------------------------------------------- *)

is_sep_byte(c) == c = "/"

has_root(p) == Len(p) > 0 /\ is_sep_byte(p[1])

\* a leading "." that is a whole segment is kept as CurDir
include_cur_dir(p) ==
    /\ ~has_root(p)
    /\ Len(p) >= 1
    /\ p[1] = "."
    /\ (Len(p) = 1 \/ is_sep_byte(p[2]))

RootDir == [kind |-> "RootDir", name |-> <<>>]
CurDir == [kind |-> "CurDir", name |-> <<>>]
ParentDir == [kind |-> "ParentDir", name |-> <<>>]
Normal(s) == [kind |-> "Normal", name |-> s]

\* the segments of p between separators, empty ones included
RECURSIVE Segments(_, _)
Segments(p, cur) ==
    IF p = <<>> THEN <<cur>>
    ELSE IF is_sep_byte(Head(p)) THEN <<cur>> \o Segments(Tail(p), <<>>)
    ELSE Segments(Tail(p), Append(cur, Head(p)))

\* empty and "." segments produce no component
parse_single_component(seg) ==
    IF seg = <<>> \/ seg = <<".">> THEN <<>>
    ELSE IF seg = <<".", ".">> THEN <<ParentDir>>
    ELSE <<Normal(seg)>>

RECURSIVE ParseAll(_)
ParseAll(segs) ==
    IF segs = <<>> THEN <<>>
    ELSE parse_single_component(Head(segs)) \o ParseAll(Tail(segs))

\* Path::components(): the sequence the iterator yields
components(p) ==
    (IF has_root(p) THEN <<RootDir>>
     ELSE IF include_cur_dir(p) THEN <<CurDir>>
     ELSE <<>>) \o ParseAll(Segments(p, <<>>))

\* PathBuf::push: an absolute path replaces the buffer, a relative one is
\* appended after a separator when the buffer does not already end in one
push(buf, path) ==
    IF has_root(path) THEN path
    ELSE IF Len(buf) > 0 /\ ~is_sep_byte(buf[Len(buf)]) THEN buf \o <<"/">> \o path
    ELSE buf \o path

(* ---------------------------------------------------------------------- *)
(* Option values                                                          *)
(* ---------------------------------------------------------------------- *)

None == [some |-> FALSE, path |-> <<>>]
Some(p) == [some |-> TRUE, path |-> p]

(* ---------------------------------------------------------------------- *)
(* SinglePathComponent                                                    *)
(* ---------------------------------------------------------------------- *)

\* is_valid that looks at the first component only
is_valid_first_only(path) ==
    LET cs == components(path)
    IN  Len(cs) >= 1 /\ cs[1].kind = "Normal"

\* is_valid that counts the components without looking at their kind
is_valid_any_single(path) == Len(components(path)) = 1

\* is_valid that also refuses names with a leading dot
is_valid_no_leading_dot(path) ==
    LET cs == components(path)
    IN  Len(cs) = 1 /\ cs[1].kind = "Normal" /\ path[1] # "."

\* is_valid that only refuses absolute paths
is_valid_relative(path) == path # <<>> /\ ~has_root(path)

\* matches!((components.next(), components.next()), (Some(Normal(_)), None))
is_valid(path) ==
    LET cs == components(path)
    IN  Len(cs) = 1 /\ cs[1].kind = "Normal"

\* SinglePathComponent::new: the text is stored as given, or None
SinglePathComponent_new(component) ==
    IF is_valid(component) THEN Some(component) ELSE None

\* push_component that puts the component in front of the buffer
push_component_front(buf, component) == push(component.path, buf)

\* PushPathComponent for PathBuf: self.push(component)
push_component(buf, component) == push(buf, component.path)

\* a closure that leaves an invalid part out instead of giving up
safe_closure_skip(tmp_path, part) ==
    LET component == SinglePathComponent_new(part)
    IN  IF component.some THEN Some(push(tmp_path, component.path))
        ELSE Some(tmp_path)

\* the closure handed to and_then in both arms of pathbuf_safe!
safe_closure(tmp_path, part) ==
    LET component == SinglePathComponent_new(part)
    IN  IF component.some THEN Some(push_component(tmp_path, component))
        ELSE None

\* a chain step that starts over from an empty path after a failure
and_then_restart(t, part) ==
    safe_closure(IF t.some THEN t.path ELSE <<>>, part)

\* Option::and_then applied to that closure
and_then(t, part) == IF t.some THEN safe_closure(t.path, part) ELSE None

\* an allow arm that validates its first part like the others
allow_first_validated(t, first) == and_then(t, first)

\* temp.map(|mut tmp_path| { tmp_path.push($first); tmp_path })
allow_first(t, first) == IF t.some THEN Some(push(t.path, first)) ELSE None

\* a step that strips leading separators so that nothing is replaced
RECURSIVE trim_start_sep(_)
trim_start_sep(p) ==
    IF p # <<>> /\ is_sep_byte(Head(p)) THEN trim_start_sep(Tail(p)) ELSE p

pathbuf_step_trimmed(buf, part) == push(buf, trim_start_sep(part))

\* temp.push($part) in pathbuf!
pathbuf_step(buf, part) == push(buf, part)

(* ---------------------------------------------------------------------- *)
(* State                                                                  *)
(* ---------------------------------------------------------------------- *)

VARIABLES
    op,         \* the operation in progress
    pc,         \* "idle", "run", "done" or "panic"
    parts,      \* the arguments of the call, in order
    i,          \* how many arguments the expansion has passed
    temp,       \* the macro's `temp`
    component,  \* the SinglePathComponent last constructed in this call
    calls,      \* how many times SinglePathComponent::new ran in this call
    sanitised   \* the sanitiser's output in with_sanitise

vars == <<op, pc, parts, i, temp, component, calls, sanitised>>

Init ==
    /\ op = "none"
    /\ pc = "idle"
    /\ parts = <<>>
    /\ i = 0
    /\ temp = None
    /\ component = None
    /\ calls = 0
    /\ sanitised = <<>>

\* every call starts from a fresh state: calls share nothing
CanCall == pc = "idle"

\* common start of a macro invocation
Begin(o, ps, t) ==
    /\ op' = o
    /\ pc' = "run"
    /\ parts' = ps
    /\ i' = 0
    /\ temp' = t
    /\ component' = None
    /\ calls' = 0
    /\ sanitised' = <<>>

(* pathbuf![p1, ..., pn] *)
pathbuf_begin ==
    /\ CanCall
    /\ \E ps \in PartLists(MaxParts) : Begin("pathbuf", ps, Some(<<>>))

pathbuf_push ==
    /\ op = "pathbuf" /\ pc = "run" /\ i < Len(parts)
    /\ temp' = Some(pathbuf_step(temp.path, parts[i + 1]))
    /\ i' = i + 1
    /\ UNCHANGED <<op, pc, parts, component, calls, sanitised>>

(* pathbuf_safe![p1, ..., pn] *)
pathbuf_safe_begin ==
    /\ CanCall
    /\ \E ps \in PartLists(MaxParts) : Begin("pathbuf_safe", ps, Some(<<>>))

(* pathbuf_safe![allow first, p1, ..., pn] *)
pathbuf_safe_allow_begin ==
    /\ CanCall
    /\ \E first \in Texts(MaxTextLen), ps \in PartLists(MaxParts - 1) :
        Begin("pathbuf_safe_allow", <<first>> \o ps, Some(<<>>))

\* the trusted first part of the allow arm
allow_push_first ==
    /\ op = "pathbuf_safe_allow" /\ pc = "run" /\ i = 0
    /\ temp' = allow_first(temp, parts[1])
    /\ i' = 1
    /\ UNCHANGED <<op, pc, parts, component, calls, sanitised>>

\* temp = temp.and_then(|mut tmp_path| { ... }) for the next part
safe_and_then ==
    /\ pc = "run" /\ i < Len(parts)
    /\ \/ op = "pathbuf_safe"
       \/ op = "pathbuf_safe_allow" /\ i >= 1
    /\ temp' = and_then(temp, parts[i + 1])
    /\ component' = IF temp.some THEN SinglePathComponent_new(parts[i + 1])
                    ELSE component
    /\ calls' = IF temp.some THEN calls + 1 ELSE calls
    /\ i' = i + 1
    /\ UNCHANGED <<op, pc, parts, sanitised>>

\* the block's final expression `temp`
macro_return ==
    /\ op \in {"pathbuf", "pathbuf_safe", "pathbuf_safe_allow"}
    /\ pc = "run" /\ i = Len(parts)
    /\ pc' = "done"
    /\ UNCHANGED <<op, parts, i, temp, component, calls, sanitised>>

(* SinglePathComponent::new(s) *)
new ==
    /\ CanCall
    /\ \E s \in Texts(MaxTextLen) :
        /\ op' = "new"
        /\ pc' = "done"
        /\ parts' = <<s>>
        /\ i' = 1
        /\ temp' = None
        /\ component' = SinglePathComponent_new(s)
        /\ calls' = 1
        /\ sanitised' = <<>>

\* with_sanitise that hands back None instead of panicking
with_sanitise_outcome_none(sanitised_component) ==
    [pc |-> "done", component |-> SinglePathComponent_new(sanitised_component)]

\* Self::new(sanitised_component).unwrap_or_else(|| panic!(...))
with_sanitise_outcome(sanitised_component) ==
    LET r == SinglePathComponent_new(sanitised_component)
    IN  IF r.some THEN [pc |-> "done", component |-> r]
        ELSE [pc |-> "panic", component |-> None]

(* SinglePathComponent::with_sanitise(s); the sanitiser is an external     *)
(* crate, so its output is any text                                        *)
with_sanitise ==
    /\ CanCall
    /\ \E s \in Texts(MaxTextLen), out \in Texts(MaxTextLen) :
        LET r == with_sanitise_outcome(out)
        IN  /\ op' = "with_sanitise"
            /\ pc' = r.pc
            /\ parts' = <<s>>
            /\ i' = 1
            /\ temp' = None
            /\ component' = r.component
            /\ calls' = 1
            /\ sanitised' = out

Next ==
    \/ pathbuf_begin
    \/ pathbuf_push
    \/ pathbuf_safe_begin
    \/ pathbuf_safe_allow_begin
    \/ allow_push_first
    \/ safe_and_then
    \/ macro_return
    \/ new
    \/ with_sanitise

Spec == Init /\ [][Next]_vars

(* ---------------------------------------------------------------------- *)
(* Vocabulary of the properties                                           *)
(* ---------------------------------------------------------------------- *)

InSafeJoin == op \in {"pathbuf_safe", "pathbuf_safe_allow"}

\* index of the first part that pathbuf_safe! validates
FirstChecked == IF op = "pathbuf_safe_allow" THEN 2 ELSE 1

HasSep(s) == \E j \in 1..Len(s) : s[j] = "/"

\* position of the first separator of s, or Len(s) + 1
FirstSep(s) ==
    IF HasSep(s) THEN CHOOSE j \in 1..Len(s) :
                          s[j] = "/" /\ \A k \in 1..(j - 1) : s[k] # "/"
    ELSE Len(s) + 1

\* the text of s before its first separator
Stem(s) == SubSeq(s, 1, FirstSep(s) - 1)

\* position j of s is a "." standing alone between separators or the end
LoneDot(s, j) ==
    /\ s[j] = "."
    /\ (j = 1 \/ s[j - 1] = "/")
    /\ (j = Len(s) \/ s[j + 1] = "/")

\* after its first separator s has something other than separators and
\* lone dots
NameAfterSep(s) ==
    \E j \in (FirstSep(s) + 1)..Len(s) : s[j] # "/" /\ ~LoneDot(s, j)

\* the one component of each of parts[lo..hi]
SingleComps(lo, hi) ==
    [k \in 1..(IF hi >= lo THEN hi - lo + 1 ELSE 0) |->
        components(parts[lo + k - 1])[1]]

AllValid(lo, hi) == \A k \in lo..hi : is_valid(parts[k])

(* ---------------------------------------------------------------------- *)
(* Properties                                                             *)
(* ---------------------------------------------------------------------- *)

\* C1: a default-mode safe join with an invalid part anywhere among its
\* parts returns None, whatever valid parts precede or follow it; no
\* partly assembled path comes back.
C1_InvalidPartGivesNone ==
    (op = "pathbuf_safe" /\ pc = "done"
        /\ \E k \in 1..Len(parts) : ~is_valid(parts[k]))
    => temp = None

C1_Witness ==
    /\ op = "pathbuf_safe" /\ pc = "done" /\ Len(parts) = 2
    /\ is_valid(parts[1]) /\ ~is_valid(parts[2])
    /\ temp = None

\* C2: a default-mode safe join of parts that all pass validation returns
\* a present path whose components are the parts' single components in
\* input order (the part's own text when it has no separator); the empty
\* list gives the present empty path.
C2_ValidPartsInOrder ==
    (op = "pathbuf_safe" /\ pc = "done" /\ AllValid(1, Len(parts)))
    => /\ temp.some
       /\ components(temp.path) = SingleComps(1, Len(parts))
       /\ \A k \in 1..Len(parts) :
             ~HasSep(parts[k]) => components(temp.path)[k] = Normal(parts[k])
       /\ (parts = <<>> => temp = Some(<<>>))

C2_Witness ==
    /\ op = "pathbuf_safe" /\ pc = "done" /\ Len(parts) = 2
    /\ AllValid(1, 2) /\ parts[1] # parts[2]
    /\ temp.some /\ Len(components(temp.path)) = 2

\* C3: every SinglePathComponent that exists wraps a path that decomposes
\* into exactly one component of kind Normal; new returns None for any
\* other text; and the wrapped path changes only when a new instance is
\* constructed.
C3_Shape ==
    /\ component.some =>
          /\ Len(components(component.path)) = 1
          /\ components(component.path)[1].kind = "Normal"
    /\ (op = "new" /\ pc = "done"
            /\ ~(Len(components(parts[1])) = 1
                   /\ components(parts[1])[1].kind = "Normal"))
         => component = None

C3_SinglePathComponentInvariant ==
    []C3_Shape /\ [][calls' = calls => component' = component]_vars

C3_Witness ==
    op = "with_sanitise" /\ pc = "done" /\ component.some

\* C4 as stated: new(s) is None for every s that is empty, "." or "..",
\* contains a separator, or is rooted.
C4_Original ==
    (op = "new" /\ pc = "done"
        /\ (\/ parts[1] = <<>>
            \/ parts[1] = <<".">>
            \/ parts[1] = <<".", ".">>
            \/ HasSep(parts[1])
            \/ has_root(parts[1])))
    => ~component.some

\* C4 (amended): new(s) is None for every s that is empty, whose text
\* before the first separator is empty (rooted), "." or "..", or that has,
\* after a separator, anything other than separators and lone dots.
C4_InvalidTextGivesNone ==
    (op = "new" /\ pc = "done"
        /\ (\/ parts[1] = <<>>
            \/ Stem(parts[1]) \in {<<>>, <<".">>, <<".", ".">>}
            \/ NameAfterSep(parts[1])))
    => ~component.some

C4_Witness ==
    /\ op = "new" /\ pc = "done"
    /\ Stem(parts[1]) = <<"a">> /\ NameAfterSep(parts[1])
    /\ ~component.some

\* C5: new(s) is present and wraps exactly s for every non-empty s that has
\* no separator and is neither "." nor "..".
C5_PlainNameIsStoredUnchanged ==
    (op = "new" /\ pc = "done"
        /\ parts[1] # <<>> /\ ~HasSep(parts[1])
        /\ parts[1] # <<".">> /\ parts[1] # <<".", ".">>)
    => component.some /\ component.path = parts[1]

C5_Witness ==
    /\ op = "new" /\ pc = "done"
    /\ Len(parts[1]) = 3 /\ ~HasSep(parts[1]) /\ parts[1][1] = "."
    /\ component = Some(parts[1])

\* C6: in the allow arm the first part is pushed unvalidated and every
\* later part is validated: the result is None exactly when some later
\* part is invalid, whatever the first part is.
C6_OnlyLaterPartsDecide ==
    (op = "pathbuf_safe_allow" /\ pc = "done")
    => (temp.some <=> AllValid(2, Len(parts)))

C6_Witness ==
    /\ op = "pathbuf_safe_allow" /\ pc = "done" /\ Len(parts) = 2
    /\ ~is_valid(parts[1]) /\ Len(components(parts[1])) = 2
    /\ temp.some

\* C7: with_sanitise never yields None: it returns a valid component made
\* of the sanitiser's output, or it panics, and it panics exactly when the
\* sanitiser's output fails validation.
C7_SanitiseNeverNone ==
    op = "with_sanitise"
    => \/ /\ pc = "done"
          /\ component = Some(sanitised)
          /\ Len(components(sanitised)) = 1
          /\ components(sanitised)[1].kind = "Normal"
       \/ /\ pc = "panic"
          /\ component = None
          /\ ~(Len(components(sanitised)) = 1
                 /\ components(sanitised)[1].kind = "Normal")

C7_Witness ==
    op = "with_sanitise" /\ pc = "panic" /\ HasSep(sanitised)

\* index of the last absolute part among parts[1..n], or 0
LastAbsolute(n) ==
    IF \E k \in 1..n : has_root(parts[k])
    THEN CHOOSE k \in 1..n :
             has_root(parts[k]) /\ \A m \in (k + 1)..n : ~has_root(parts[m])
    ELSE 0

\* the texts parts[lo..hi] written one after the other, a separator put
\* before each one whose predecessor text does not end in one
RECURSIVE Appended(_, _)
Appended(lo, hi) ==
    IF hi < lo THEN <<>>
    ELSE LET before == Appended(lo, hi - 1)
         IN  IF before = <<>> \/ before[Len(before)] = "/"
             THEN before \o parts[hi]
             ELSE before \o <<"/">> \o parts[hi]

\* C8: pathbuf! validates nothing and always yields a path: after n parts
\* it holds the last absolute part, if any, with the parts after it
\* appended in order (all parts appended when none is absolute).
C8_UnsafeJoinIsPlainPush ==
    op = "pathbuf"
    => /\ temp.some
       /\ calls = 0
       /\ temp.path = Appended(IF LastAbsolute(i) = 0 THEN 1
                                ELSE LastAbsolute(i), i)

C8_Witness ==
    /\ op = "pathbuf" /\ pc = "done" /\ Len(parts) = 2
    /\ has_root(parts[1]) /\ has_root(parts[2]) /\ parts[1] # parts[2]
    /\ temp = Some(parts[2])

\* least index of an invalid part among the validated parts passed so far,
\* or 0
FirstBad ==
    IF \E k \in FirstChecked..i : ~is_valid(parts[k])
    THEN CHOOSE k \in FirstChecked..i :
             ~is_valid(parts[k]) /\ \A m \in FirstChecked..(k - 1) : is_valid(parts[m])
    ELSE 0

\* the components of the parts passed so far
PrefixComponents ==
    IF op = "pathbuf_safe_allow"
    THEN (IF i >= 1 THEN components(parts[1]) ELSE <<>>) \o SingleComps(2, i)
    ELSE SingleComps(1, i)

C9_Prefix ==
    (InSafeJoin /\ pc \in {"run", "done"})
    => IF FirstBad = 0
       THEN /\ temp.some
            /\ components(temp.path) = PrefixComponents
            /\ calls = IF i >= FirstChecked THEN i - FirstChecked + 1 ELSE 0
       ELSE /\ temp = None
            /\ calls = FirstBad - FirstChecked + 1
            /\ component = None

C9_Step ==
    (InSafeJoin /\ pc = "run")
    => /\ \/ i < Len(parts) /\ i' = i + 1 /\ pc' = "run"
          \/ i = Len(parts) /\ i' = i /\ pc' = "done" /\ temp' = temp
       /\ parts' = parts
       /\ ~temp.some => (~temp'.some /\ calls' = calls /\ component' = component)

\* C9: a safe join passes its parts left to right, one per step; while no
\* invalid part has been met the accumulator holds exactly the components
\* of the parts passed so far, in order; from the first invalid part on
\* the accumulator is gone, no further part is validated or appended, and
\* the outcome stays None until the call returns.
C9_LeftToRightShortCircuit == []C9_Prefix /\ [][C9_Step]_vars

C9_Witness ==
    /\ op = "pathbuf_safe" /\ pc = "run" /\ Len(parts) = 2 /\ i = 2
    /\ ~is_valid(parts[1]) /\ is_valid(parts[2])
    /\ temp = None /\ calls = 1

\* C10: a present result of the allow arm consists of the components of
\* the first part followed by the later parts' single components in order,
\* all of them Normal: nothing after the first part replaces it, removes
\* one of its components, or adds a root or a "..".
C10_TrustedFirstIsContained ==
    (op = "pathbuf_safe_allow" /\ pc = "done" /\ temp.some)
    => LET cs == components(temp.path)
           n == Len(components(parts[1]))
       IN  /\ cs = components(parts[1]) \o SingleComps(2, Len(parts))
           /\ Len(cs) = n + Len(parts) - 1
           /\ \A k \in (n + 1)..Len(cs) : cs[k].kind = "Normal"
           /\ \A k \in 2..Len(parts) :
                 ~HasSep(parts[k]) => cs[n + k - 1] = Normal(parts[k])

C10_Witness ==
    /\ op = "pathbuf_safe_allow" /\ pc = "done" /\ Len(parts) = 2
    /\ has_root(parts[1]) /\ Len(components(parts[1])) = 2
    /\ temp.some /\ Len(components(temp.path)) = 3

====
